---- MODULE Spec2Model ----
(***************************************************************************)
(* A model of bfg9000's pkg-config descriptor generation                   *)
(* (src/bfg9000/builtins/pkg_config.py): version requirements and          *)
(* RequirementSet, PkgConfigInfo._process_inputs / write, and              *)
(* finalize_pkg_config.                                                    *)
(*                                                                         *)
(* Versions are written in tenths: 10 is "1.0", 15 is "1.5", 20 is "2.0".  *)
(* The operator ~= is left out: it needs multi-segment versions.           *)
(***************************************************************************)
EXTENDS Integers, Sequences, FiniteSets, TLC

\* ------------------------------------------------------------ bounds
\* The largest number of comparisons a constraint may hold (guards of the
\* RequirementSet actions).
MaxSpecs == 2

\* ------------------------------------------------------------ universes
PkgNames == {"a", "b"}
\* The order of package names used by sorted(..., key=lambda x: x.name).
NameOrder == <<"a", "b">>
Ops == {"==", "!=", "<", "<=", ">", ">="}
\* The comparisons the inputs are drawn from.
InputSpecs ==
    { [operator |-> ">=", version |-> 10], [operator |-> "<", version |-> 20],
      [operator |-> "!=", version |-> 15] }
\* Versions at, between and around the versions the comparisons name.
ProbeVersions == {5, 10, 12, 15, 17, 20, 25}
\* The constraints a fresh Requirement is built with: none, or one comparison.
InputVersions == {{}} \cup { {s} : s \in InputSpecs }
\* A value no object is equal to.
None == [none |-> TRUE]

\* ------------------------------------------------------------ versioning
\* Whether version v satisfies the comparison s.
Satisfies(v, s) ==
    CASE s.operator = "==" -> v = s.version
      [] s.operator = "!=" -> v # s.version
      [] s.operator = "<"  -> v < s.version
      [] s.operator = "<=" -> v <= s.version
      [] s.operator = ">"  -> v > s.version
      [] s.operator = ">=" -> v >= s.version

\* The versions a constraint (a conjunction of comparisons) allows.
Allowed(S) == { v \in ProbeVersions : \A s \in S : Satisfies(v, s) }

\* SpecifierSet.__and__: the comparisons of both, duplicates dropped.
Intersect(S, T) == S \cup T

\* A set of comparisons as a sequence, by (version, operator).
OpRank(o) ==
    CASE o = ">=" -> 1 [] o = ">" -> 2 [] o = "<" -> 3 [] o = "<=" -> 4
      [] o = "==" -> 5 [] o = "!=" -> 6
SpecBefore(s, t) ==
    \/ s.version < t.version
    \/ s.version = t.version /\ OpRank(s.operator) <= OpRank(t.operator)
RECURSIVE SortSpecs(_)
SortSpecs(S) ==
    IF S = {} THEN <<>>
    ELSE LET m == CHOOSE s \in S : \A t \in S : SpecBefore(s, t)
         IN  <<m>> \o SortSpecs(S \ {m})

\* simplify_specifiers: the minimal equivalent list of comparisons: the
\* tightest lower bound, the tightest upper bound, and every != that lies
\* within them; one == stands for the whole constraint.
Lowers(S) == { s \in S : s.operator \in {">", ">="} }
Uppers(S) == { s \in S : s.operator \in {"<", "<="} }
TightestLower(S) ==
    { s \in Lowers(S) : \A t \in Lowers(S) :
        \/ s.version > t.version
        \/ s.version = t.version /\ (s.operator = ">" \/ t.operator = ">=") }
TightestUpper(S) ==
    { s \in Uppers(S) : \A t \in Uppers(S) :
        \/ s.version < t.version
        \/ s.version = t.version /\ (s.operator = "<" \/ t.operator = "<=") }
simplify_specifiers(S) ==
    LET gt == TightestLower(S)
        lt == TightestUpper(S)
        eq == { s \in S : s.operator = "==" }
        ne == { s \in S : /\ s.operator = "!="
                          /\ \A b \in gt \cup lt : Satisfies(s.version, b) }
    IN  IF eq # {} THEN SortSpecs(eq)
        ELSE IF \E g \in gt, l \in lt :
                    /\ g.version = l.version
                    /\ g.operator = ">=" /\ l.operator = "<="
             THEN LET g == CHOOSE x \in gt : TRUE
                  IN  << [operator |-> "==", version |-> g.version] >>
        ELSE SortSpecs(gt) \o SortSpecs(lt) \o SortSpecs(ne)

\* ------------------------------------------------------------ Requirement
\* Requirement.__init__: a name and a constraint (no version: no comparison).
Requirement(name, version) == [name |-> name, version |-> version]

\* Requirement.merge: the constraint becomes the conjunction of both.
MergeTakesNew(r, req) == [r EXCEPT !.version = req.version]
Requirement_merge(r, req) ==
    [r EXCEPT !.version = Intersect(r.version, req.version)]

\* SimpleRequirement.__init__: a name and at most one comparison.
SimpleRequirement(name, version) == [name |-> name, version |-> version]

\* Requirement.split: [ok, out]; ok = FALSE is the ValueError.
SplitNeverFails(r, single) ==
    LET specs == simplify_specifiers(r.version)
    IN  IF Len(specs) = 0
        THEN [ok |-> TRUE, out |-> << SimpleRequirement(r.name, None) >>]
        ELSE [ok |-> TRUE,
              out |-> [i \in 1..Len(specs) |-> SimpleRequirement(r.name, specs[i])]]
Requirement_split(r, single) ==
    LET specs == simplify_specifiers(r.version)
    IN  IF Len(specs) = 0
        THEN [ok |-> TRUE, out |-> << SimpleRequirement(r.name, None) >>]
        ELSE IF single /\ Len(specs) > 1
        THEN [ok |-> FALSE, out |-> <<>>]
        ELSE [ok |-> TRUE,
              out |-> [i \in 1..Len(specs) |-> SimpleRequirement(r.name, specs[i])]]

\* ------------------------------------------------------------ RequirementSet
\* Requirement objects live in a heap (a sequence, an object's id is its
\* index); a RequirementSet's _reqs maps keys to object ids, so that two sets
\* can hold the same object.  st = [heap |-> ..., sets |-> [set id -> _reqs]].
EmptyReqs == [n \in {} |-> 0]

\* A Requirement object is created: [st, id].
Alloc(st, r) ==
    [st |-> [st EXCEPT !.heap = Append(st.heap, r)], id |-> Len(st.heap) + 1]

\* RequirementSet.__iter__: itervalues(self._reqs), as a sequence of ids.
KeysOf(reqs) == SelectSeq(NameOrder, LAMBDA n : n \in DOMAIN reqs)
RS_iter(reqs) == [i \in 1..Len(KeysOf(reqs)) |-> reqs[KeysOf(reqs)[i]]]

\* RequirementSet.add: insert under the item's name, or merge into the entry.
AddUnderFirstKey(st, s, item) ==
    LET n == st.heap[item].name
        reqs == st.sets[s]
        k0 == NameOrder[1]
    IN  IF k0 \notin DOMAIN reqs
        THEN [st EXCEPT !.sets[s] = [k \in DOMAIN reqs \cup {k0} |->
                                        IF k = k0 THEN item ELSE reqs[k]]]
        ELSE [st EXCEPT !.heap[reqs[k0]] =
                            Requirement_merge(st.heap[reqs[k0]], st.heap[item])]
RS_add(st, s, item) ==
    LET n == st.heap[item].name
        reqs == st.sets[s]
    IN  IF n \notin DOMAIN reqs
        THEN [st EXCEPT !.sets[s] = [k \in DOMAIN reqs \cup {n} |->
                                        IF k = n THEN item ELSE reqs[k]]]
        ELSE [st EXCEPT !.heap[reqs[n]] =
                            Requirement_merge(st.heap[reqs[n]], st.heap[item])]

\* RequirementSet.remove: del self._reqs[item.name]; ok = FALSE is the KeyError.
RS_remove(st, s, item) ==
    LET n == st.heap[item].name
        reqs == st.sets[s]
    IN  IF n \in DOMAIN reqs
        THEN [ok |-> TRUE,
              st |-> [st EXCEPT !.sets[s] = [k \in DOMAIN reqs \ {n} |-> reqs[k]]]]
        ELSE [ok |-> FALSE, st |-> st]

\* RequirementSet.update: add every item of the iterable, in its order.
RECURSIVE RS_update(_, _, _)
RS_update(st, s, items) ==
    IF items = <<>> THEN st
    ELSE RS_update(RS_add(st, s, Head(items)), s, Tail(items))

\* RequirementSet.__init__: an empty map, then add every item.
RS_init(st, s, items) ==
    RS_update([st EXCEPT !.sets[s] = EmptyReqs], s, items)

\* RequirementSet.merge_into: every item of `other` whose name is in self is
\* merged into self's entry and removed from `other`.
RECURSIVE MergeIntoLoop(_, _, _, _)
MergeIntoLoop(st, s, other, items) ==
    IF items = <<>> THEN st
    ELSE LET i == Head(items)
             n == st.heap[i].name
         IN  IF n \in DOMAIN st.sets[s]
             THEN LET merged == [st EXCEPT !.heap[st.sets[s][n]] =
                                    Requirement_merge(st.heap[st.sets[s][n]], st.heap[i])]
                  IN  MergeIntoLoop(RS_remove(merged, other, i).st, s, other, Tail(items))
             ELSE MergeIntoLoop(st, s, other, Tail(items))
MergeIntoKeepsOther(st, s, other) ==
    LET items == RS_iter(st.sets[other])
        keep == st.sets[other]
    IN  [MergeIntoLoop(st, s, other, items) EXCEPT !.sets[other] = keep]
RS_merge_into(st, s, other) ==
    MergeIntoLoop(st, s, other, RS_iter(st.sets[other]))

\* RequirementSet.split: the splits of all items, concatenated and sorted by
\* name (a stable sort; the items are iterated in name order already);
\* ok = FALSE when one of the splits raises.
RECURSIVE SplitLoop(_, _, _)
SplitLoop(h, items, single) ==
    IF items = <<>> THEN [ok |-> TRUE, out |-> <<>>]
    ELSE LET one == Requirement_split(h[Head(items)], single)
             rest == SplitLoop(h, Tail(items), single)
         IN  IF one.ok /\ rest.ok
             THEN [ok |-> TRUE, out |-> one.out \o rest.out]
             ELSE [ok |-> FALSE, out |-> <<>>]
RS_split(st, s, single) == SplitLoop(st.heap, RS_iter(st.sets[s]), single)

\* The store with unreachable objects dropped and the reachable ones
\* renumbered in the order the sets, taken in `order`, reach them.
RECURSIVE FirstSeen(_, _)
FirstSeen(seq, seen) ==
    IF seq = <<>> THEN <<>>
    ELSE IF Head(seq) \in seen THEN FirstSeen(Tail(seq), seen)
    ELSE <<Head(seq)>> \o FirstSeen(Tail(seq), seen \cup {Head(seq)})
\* iterutils.uniques: the items in first-seen order, each once, as a new list.
uniques(seq) == FirstSeen(seq, {})
RECURSIVE AllRefs(_, _)
AllRefs(st, order) ==
    IF order = <<>> THEN <<>>
    ELSE RS_iter(st.sets[Head(order)]) \o AllRefs(st, Tail(order))
Collect(st, order) ==
    LET ids == uniques(AllRefs(st, order))
        new(id) == CHOOSE i \in 1..Len(ids) : ids[i] = id
    IN  [heap |-> [i \in 1..Len(ids) |-> st.heap[ids[i]]],
         sets |-> [s \in DOMAIN st.sets |->
                     [k \in DOMAIN st.sets[s] |-> new(st.sets[s][k])]]]

\* The constraint a set records for a name (the set must hold the name).
Constraint(st, s, n) == st.heap[st.sets[s][n]].version
\* A set as a map from its keys to the Requirements stored under them.
Contents(st, s) == [k \in DOMAIN st.sets[s] |-> st.heap[st.sets[s][k]]]

\* ------------------------------------------------------------ build graph
\* An optional value: <<>> is None, <<x>> is the value x.
NoneVal == <<>>
Some(x) == <<x>>
\* `value or []` for an optional list.
ListOr(f) == IF f = NoneVal THEN <<>> ELSE f[1]
Range(seq) == { seq[i] : i \in 1..Len(seq) }
RECURSIVE Flatten(_)
Flatten(seqs) == IF seqs = <<>> THEN <<>> ELSE Head(seqs) \o Flatten(Tail(seqs))

\* A library of the build graph: forward is hasattr(lib, 'forward_args').
Library(forward, fwd_libs, fwd_options, package_deps) ==
    [forward |-> forward, fwd_libs |-> fwd_libs, fwd_options |-> fwd_options,
     package_deps |-> package_deps]

\* A package reference: a bare name ("str"), a (name, specifier) pair
\* ("tuple"), a PkgConfigPackage ("pkg_config"), a CommonPackage ("system",
\* with its all_options) or a value of another type ("other").
PkgRef(kind, name, version, options) ==
    [kind |-> kind, name |-> name, version |-> version, options |-> options]
\* One entry of all_options: iterable is isiterable(value).
Option(key, iterable, value) == [key |-> key, iterable |-> iterable, value |-> value]

\* ------------------------------------------------------------ PkgConfigInfo
ReqFields == {"requires", "requires_private", "conflicts"}
ReqOrder == <<"requires", "requires_private", "conflicts">>

\* PkgConfigInfo._filter_packages: the packages go to a new RequirementSet
\* (set s of the store) or to the list of system packages; ok = FALSE is the
\* TypeError.
RECURSIVE FilterLoop(_, _, _, _)
FilterLoop(st, s, packages, system) ==
    IF packages = <<>> THEN [ok |-> TRUE, st |-> st, system |-> uniques(system)]
    ELSE LET i == Head(packages)
         IN  IF i.kind = "str"
             THEN LET a == Alloc(st, Requirement(i.name, {}))
                  IN  FilterLoop(RS_add(a.st, s, a.id), s, Tail(packages), system)
             ELSE IF i.kind \in {"tuple", "pkg_config"}
             THEN LET a == Alloc(st, Requirement(i.name, i.version))
                  IN  FilterLoop(RS_add(a.st, s, a.id), s, Tail(packages), system)
             ELSE IF i.kind = "system"
             THEN FilterLoop(st, s, Tail(packages), Append(system, i))
             ELSE [ok |-> FALSE, st |-> st, system |-> <<>>]
FilterSkipsUnsupported(st, s, packages) ==
    FilterLoop([st EXCEPT !.sets[s] = EmptyReqs], s,
               SelectSeq(packages, LAMBDA i : i.kind # "other"), <<>>)
PkgConfigInfo_filter_packages(st, s, packages) ==
    FilterLoop([st EXCEPT !.sets[s] = EmptyReqs], s, packages, <<>>)

\* PkgConfigInfo.__init__ with the property setters: includes, libs and
\* libs_private are made unique; requires, requires_private and conflicts
\* are filtered into RequirementSets (requires and requires_private keep
\* their system packages beside the set).  The model's callers pass no
\* package of an unsupported type.
PkgConfigInfo_init(kw) ==
    LET st0 == [heap |-> <<>>, sets |-> [s \in ReqFields |-> EmptyReqs]]
        f1 == PkgConfigInfo_filter_packages(st0, "requires", ListOr(kw.requires))
        f2 == PkgConfigInfo_filter_packages(f1.st, "requires_private",
                                            ListOr(kw.requires_private))
        f3 == PkgConfigInfo_filter_packages(f2.st, "conflicts", ListOr(kw.conflicts))
        list(f) == IF f = NoneVal THEN NoneVal ELSE Some(uniques(f[1]))
    IN  [auto_fill |-> kw.auto_fill,
         name |-> kw.name, desc_name |-> kw.desc_name, desc |-> kw.desc,
         url |-> kw.url, version |-> kw.version,
         requires |-> IF kw.requires = NoneVal THEN NoneVal ELSE Some(f1.system),
         requires_private |->
             IF kw.requires_private = NoneVal THEN NoneVal ELSE Some(f2.system),
         has_conflicts |-> kw.conflicts # NoneVal,
         includes |-> list(kw.includes), libs |-> list(kw.libs),
         libs_private |-> list(kw.libs_private),
         options |-> kw.options, link_options |-> kw.link_options,
         link_options_private |-> kw.link_options_private,
         st |-> Collect(f3.st, ReqOrder)]

\* process_packages (in _process_inputs): every iterable option of every
\* package is appended to result[key] when key is a core field, else to
\* result[extra][key].  R holds the lists of `result`; ok = FALSE is the
\* KeyError of a key that `result` does not hold: with private set the core
\* keys are includes_private and libs_private and extra is
\* extra_fields_private, and of these `result` holds libs_private only.
Extend(fields, key, value) ==
    [k \in DOMAIN fields \cup {key} |->
        IF k = key THEN (IF key \in DOMAIN fields THEN fields[key] ELSE <<>>) \o value
        ELSE fields[k]]
RECURSIVE PackagesLoop(_, _, _)
PackagesLoop(R, entries, private) ==
    IF entries = <<>> \/ ~R.ok THEN R
    ELSE LET e == Head(entries)
             core == IF private THEN {"includes_private", "libs_private"}
                     ELSE {"includes", "libs"}
             next ==
                 IF ~e.iterable THEN R
                 ELSE IF e.key \in core
                 THEN CASE e.key = "includes" ->
                               [R EXCEPT !.includes = @ \o e.value]
                        [] e.key = "libs" -> [R EXCEPT !.libs = @ \o e.value]
                        [] e.key = "libs_private" ->
                               [R EXCEPT !.libs_private = @ \o e.value]
                        [] OTHER -> [R EXCEPT !.ok = FALSE]
                 ELSE IF private THEN [R EXCEPT !.ok = FALSE]
                 ELSE [R EXCEPT !.extra_fields = Extend(@, e.key, e.value)]
         IN  PackagesLoop(next, Tail(entries), private)
process_packages(R, pkgs, private) ==
    PackagesLoop(R, Flatten([i \in 1..Len(pkgs) |-> pkgs[i].options]), private)

\* The libs_private of _process_inputs: the libraries forwarded by the
\* libraries of chain(libs, libs_private) that are not in libs, then
\* libs_private, each once.
ResolvePrivateLibs(g, libs, libs_private) ==
    LET all == libs \o libs_private
        src == SelectSeq(all, LAMBDA i : i \notin Range(libs))
    IN  uniques(Flatten([k \in 1..Len(src) |->
                    IF g[src[k]].forward THEN g[src[k]].fwd_libs ELSE <<>>])
                \o libs_private)

\* The stored RequirementSets after a call that left them as in `st`: a
\* field that is None has no stored set (the call worked on a fresh one).
Persist(info, st) ==
    LET stored(s) == CASE s = "requires" -> info.requires # NoneVal
                       [] s = "requires_private" -> info.requires_private # NoneVal
                       [] s = "conflicts" -> info.has_conflicts
    IN  [info EXCEPT !.st = Collect(
            [heap |-> st.heap,
             sets |-> [s \in ReqFields |->
                          IF stored(s) THEN st.sets[s] ELSE EmptyReqs]],
            ReqOrder)]

\* PkgConfigInfo._process_inputs on descriptor `info` over build graph g:
\* [ok, err, data, info]; data is the result (None when the call raises),
\* info the descriptor as the call leaves it.  The steps follow the method,
\* each taking what the steps before it computed.
Raise(err, info) == [ok |-> FALSE, err |-> err, data |-> NoneVal, info |-> info]

\* fwd_ldflags: the forwarded options of chain(libs, libs_private).
ForwardedOptions(g, all) ==
    Flatten([k \in 1..Len(all) |->
                IF g[all[k]].forward THEN g[all[k]].fwd_options ELSE <<>>])
\* The package dependencies of chain(libs, libs_private).
PackageDeps(g, all) == Flatten([k \in 1..Len(all) |-> g[all[k]].package_deps])
\* The sets the call works on: the stored ones, a fresh one for a field that
\* is None (a stored set of such a field is empty), and auto_requires.
LocalStore(info) ==
    [heap |-> info.st.heap,
     sets |-> [s \in ReqFields \cup {"auto"} |->
                  IF s = "auto" THEN EmptyReqs ELSE info.st.sets[s]]]

\* The result, once the options of the system packages are in (R1 after
\* the public ones, R2 after the private ones).  result['includes'] and
\* result['libs'] are the stored lists themselves when those are not
\* empty: extend() changes them.
ProcessInputs_result(g, info, info1, reqs, R1, R2) ==
    LET desc_name == IF info.desc_name # NoneVal THEN info.desc_name ELSE info.name
        info2 == [info1 EXCEPT
                     !.includes = IF ListOr(@) # <<>> THEN Some(R1.includes) ELSE @,
                     !.libs = IF ListOr(@) # <<>> THEN Some(R1.libs) ELSE @]
    IN  IF ~R2.ok THEN Raise("KeyError", info2)
        ELSE [ok |-> TRUE, err |-> "",
              data |-> Some(
                [name |-> info.name, desc_name |-> desc_name, url |-> info.url,
                 version |-> info.version,
                 desc |-> IF info.desc # NoneVal THEN info.desc
                          ELSE desc_name \o <<" library">>,
                 requires |-> reqs.requires,
                 requires_private |-> reqs.requires_private,
                 conflicts |-> reqs.conflicts,
                 includes |-> R2.includes, libs |-> R2.libs,
                 libs_private |-> R2.libs_private,
                 extra_fields |-> R2.extra_fields,
                 cflags |-> info.options, ldflags |-> info.link_options,
                 ldflags_private |->
                     ForwardedOptions(g, ListOr(info.libs) \o ListOr(info.libs_private))
                     \o info.link_options_private]),
              info |-> info2]
ProcessInputs_private(g, info, info1, reqs, auto_extra, R1) ==
    ProcessInputs_result(g, info, info1, reqs, R1,
        process_packages(R1, ListOr(info.requires_private) \o auto_extra, TRUE))
ProcessInputs_packages(g, info, info1, libs_private, auto_extra, reqs) ==
    ProcessInputs_private(g, info, info1, reqs, auto_extra,
        process_packages(
            [ok |-> TRUE, includes |-> ListOr(info.includes),
             libs |-> ListOr(info.libs), libs_private |-> libs_private,
             extra_fields |-> <<>>],
            ListOr(info.requires), FALSE))
\* The three splits; the sets stay as update and merge_into left them.
ProcessInputs_split(g, info, info1, libs_private, auto_extra, split) ==
    IF ~(split.requires.ok /\ split.requires_private.ok /\ split.conflicts.ok)
    THEN Raise("ValueError", info1)
    ELSE ProcessInputs_packages(g, info, info1, libs_private, auto_extra,
            [requires |-> split.requires.out,
             requires_private |-> split.requires_private.out,
             conflicts |-> split.conflicts.out])
ProcessInputs_merged(g, info, libs_private, auto_extra, st) ==
    ProcessInputs_split(g, info, Persist(info, st), libs_private, auto_extra,
        [requires |-> RS_split(st, "requires", TRUE),
         requires_private |-> RS_split(st, "requires_private", TRUE),
         conflicts |-> RS_split(st, "conflicts", FALSE)])
\* requires_private.update(auto_requires); requires.merge_into(requires_private)
ProcessInputs_auto(g, info, libs_private, auto) ==
    IF ~auto.ok THEN Raise("TypeError", info)
    ELSE ProcessInputs_merged(g, info, libs_private, auto.system,
            RS_merge_into(
                RS_update(auto.st, "requires_private", RS_iter(auto.st.sets["auto"])),
                "requires", "requires_private"))
ProcessInputs_libs(g, info, libs_private) ==
    ProcessInputs_auto(g, info, libs_private,
        PkgConfigInfo_filter_packages(LocalStore(info), "auto",
            PackageDeps(g, ListOr(info.libs) \o libs_private)))
PkgConfigInfo_process_inputs(g, info) ==
    ProcessInputs_libs(g, info,
        ResolvePrivateLibs(g, ListOr(info.libs), ListOr(info.libs_private)))

\* ------------------------------------------------------------ serialization
\* A token of the output: a text or a version number.
Tok(s) == [text |-> s, num |-> 0]
Num(n) == [text |-> "", num |-> n]
Toks(seq) == [i \in 1..Len(seq) |-> Tok(seq[i])]

\* SimpleRequirement._safe_str: the name, or "name op version" with == as =.
SimpleRequirement_safe_str(r) ==
    IF "none" \in DOMAIN r.version THEN <<Tok(r.name)>>
    ELSE <<Tok(r.name),
           Tok(IF r.version.operator = "==" THEN "=" ELSE r.version.operator),
           Num(r.version.version)>>

\* The install roots (path.InstallRoot) and the flags the toolchain gives for
\* a package's includes and libraries: collaborators of write.
InstallRoots == <<"prefix", "exec_prefix", "bindir", "libdir", "includedir">>
PackageCflags(includes) == Flatten([i \in 1..Len(includes) |-> <<Tok("-I"), Tok(includes[i])>>])
PackageLdflags(libs) == Flatten([i \in 1..Len(libs) |-> <<Tok("-l"), Tok(libs[i])>>])

\* PkgConfigInfo._write_variable and _write_field: a field with no value
\* writes nothing.
WriteVariable(name) == << [field |-> name, value |-> <<Tok("=")>>] >>
WriteField(name, value) ==
    IF value = <<>> THEN <<>> ELSE << [field |-> name, value |-> value] >>
Requirements(reqs) ==
    Flatten([i \in 1..Len(reqs) |-> SimpleRequirement_safe_str(reqs[i])])

\* PkgConfigInfo.write: [ok, err, data, out, info]; out is the text written
\* (None when _process_inputs raises).
WriteText(data) ==
    Flatten([i \in 1..Len(InstallRoots) |->
                IF InstallRoots[i] # "bindir" THEN WriteVariable(InstallRoots[i])
                ELSE <<>>])
    \o WriteField("Name", Toks(data.desc_name))
    \o WriteField("Description", Toks(data.desc))
    \o WriteField("URL", Toks(data.url))
    \o WriteField("Version", Toks(data.version))
    \o WriteField("Requires", Requirements(data.requires))
    \o WriteField("Requires.private", Requirements(data.requires_private))
    \o WriteField("Conflicts", Requirements(data.conflicts))
    \o WriteField("Cflags", PackageCflags(data.includes) \o Toks(data.cflags))
    \o WriteField("Libs", PackageLdflags(data.libs) \o Toks(data.ldflags))
    \o WriteField("Libs.private",
                  PackageLdflags(data.libs_private) \o Toks(data.ldflags_private))
WriteResult(r) ==
    [ok |-> r.ok, err |-> r.err, data |-> r.data,
     out |-> IF r.ok THEN Some(WriteText(r.data[1])) ELSE NoneVal, info |-> r.info]
PkgConfigInfo_write(g, info) == WriteResult(PkgConfigInfo_process_inputs(g, info))

\* ------------------------------------------------------------ finalize_pkg_config
\* The defaults of finalize_pkg_config: the project's name, its version or
\* '0.0', the installed headers and the parents of the installed libraries.
Defaults(project, headers, libraries) ==
    [name |-> Some(project.name),
     version |-> IF project.version # NoneVal THEN project.version ELSE Some("0.0"),
     includes |-> Some(headers),
     libs |-> Some(uniques(libraries))]

\* The first loop's body: with auto_fill, every one of name, version,
\* includes and libs that is None is set to its default (includes and libs
\* through their setters).
FillIgnoresFlag(i, defaults) ==
    [i EXCEPT !.name = IF @ = NoneVal THEN defaults.name ELSE @,
              !.version = IF @ = NoneVal THEN defaults.version ELSE @,
              !.includes = IF @ = NoneVal THEN Some(uniques(defaults.includes[1]))
                           ELSE @,
              !.libs = IF @ = NoneVal THEN Some(uniques(defaults.libs[1])) ELSE @]
AutoFillInfo(i, defaults) ==
    IF ~i.auto_fill THEN i
    ELSE [i EXCEPT !.name = IF @ = NoneVal THEN defaults.name ELSE @,
                   !.version = IF @ = NoneVal THEN defaults.version ELSE @,
                   !.includes = IF @ = NoneVal THEN Some(uniques(defaults.includes[1]))
                                ELSE @,
                   !.libs = IF @ = NoneVal THEN Some(uniques(defaults.libs[1])) ELSE @]

\* dupes = Counter(i.name for i in build['pkg_config']); the names that
\* count more than once.
Count(infos, name) == Cardinality({ k \in 1..Len(infos) : infos[k].name = name })
NoDupes(infos) == {}
Dupes(infos) ==
    { infos[k].name : k \in { j \in 1..Len(infos) : Count(infos, infos[j].name) > 1 } }

\* ------------------------------------------------------------ state
VARIABLES
    store,       \* the Requirement heap and the RequirementSets `self`, `other`
    last         \* the last operation: [op, target, arg, single, ok, out, both];
                 \* out is the result of split; both holds, for add, update
                 \* and merge_into, the names that were in the target and in
                 \* the argument
VARIABLES
    graph,       \* the build graph: library name -> Library
    info,        \* a PkgConfigInfo, as its stored fields
    runs         \* the outcomes of the calls of write on info, in order
VARIABLES
    build,       \* build inputs: [project, pkg_config], pkg_config the list of
                 \* registered descriptors
    fin          \* finalize_pkg_config: [pc, idx, written, err]; written is the
                 \* list of the descriptor files written, [name, text]
reqVars == <<store, last>>
resolveVars == <<graph, info, runs>>
finalVars == <<build, fin>>
vars == <<store, last, graph, info, runs, build, fin>>

\* ------------------------------------------------------------ RequirementSet operations
SetIds == {"self", "other"}
SetOrder == <<"self", "other">>
FreshItems == { Requirement(n, v) : n \in PkgNames, v \in InputVersions }
\* The iterables a RequirementSet is constructed from: empty, or two items
\* (the same name twice, the same item twice, or two names).
ListItems ==
    { Requirement("a", {[operator |-> ">=", version |-> 10]}),
      Requirement("a", {[operator |-> "<", version |-> 20]}),
      Requirement("b", {}) }
FreshLists == {<<>>} \cup { <<r, q>> : r \in ListItems, q \in ListItems }

\* No constraint of the store holds more than MaxSpecs comparisons.
WithinBounds(st) ==
    \A i \in 1..Len(st.heap) : Cardinality(st.heap[i].version) <= MaxSpecs

Op(op, target, arg, single, ok, out, both) ==
    [op |-> op, target |-> target, arg |-> arg, single |-> single, ok |-> ok,
     out |-> out, both |-> both]

\* Fresh Requirement objects for the items of a list: [st, ids].
RECURSIVE AllocAll(_, _)
AllocAll(st, items) ==
    IF items = <<>> THEN [st |-> st, ids |-> <<>>]
    ELSE LET a == Alloc(st, Head(items))
             rest == AllocAll(a.st, Tail(items))
         IN  [st |-> rest.st, ids |-> <<a.id>> \o rest.ids]

ReqInit ==
    /\ store = [heap |-> <<>>, sets |-> [s \in SetIds |-> EmptyReqs]]
    /\ last = Op("init", "-", "-", FALSE, TRUE, <<>>, {})
    /\ graph = <<>> /\ info = <<>> /\ runs = <<>>
    /\ build = <<>> /\ fin = <<>>

\* s = RequirementSet(iterable)
Construct(s, items) ==
    LET a == AllocAll(store, items)
        st == Collect(RS_init(a.st, s, a.ids), SetOrder)
    IN  /\ WithinBounds(st)
        /\ store' = st
        /\ last' = Op("construct", s, "-", FALSE, TRUE, <<>>, {})
        /\ UNCHANGED <<resolveVars, finalVars>>

\* s.add(Requirement(name, version))
Add(s, r) ==
    LET a == Alloc(store, r)
        st == Collect(RS_add(a.st, s, a.id), SetOrder)
    IN  /\ WithinBounds(st)
        /\ store' = st
        /\ last' = Op("add", s, r.name, FALSE, TRUE, <<>>,
                    {r.name} \cap DOMAIN store.sets[s])
        /\ UNCHANGED <<resolveVars, finalVars>>

\* s.update(o): the items of another set are added, by reference.
Update(s, o) ==
    LET st == Collect(RS_update(store, s, RS_iter(store.sets[o])), SetOrder)
    IN  /\ s # o
        /\ WithinBounds(st)
        /\ store' = st
        /\ last' = Op("update", s, o, FALSE, TRUE, <<>>,
                    DOMAIN store.sets[s] \cap DOMAIN store.sets[o])
        /\ UNCHANGED <<resolveVars, finalVars>>

\* s.remove(Requirement(name)); a KeyError leaves the set as it was.
Remove(s, n) ==
    LET a == Alloc(store, Requirement(n, {}))
        res == RS_remove(a.st, s, a.id)
    IN  /\ store' = Collect(res.st, SetOrder)
        /\ last' = Op("remove", s, n, FALSE, res.ok, <<>>, {})
        /\ UNCHANGED <<resolveVars, finalVars>>

\* s.merge_into(o)
MergeInto(s, o) ==
    LET st == Collect(RS_merge_into(store, s, o), SetOrder)
    IN  /\ s # o
        /\ WithinBounds(st)
        /\ store' = st
        /\ last' = Op("merge_into", s, o, FALSE, TRUE, <<>>,
                    DOMAIN store.sets[s] \cap DOMAIN store.sets[o])
        /\ UNCHANGED <<resolveVars, finalVars>>

\* s.split(single)
Split(s, single) ==
    LET res == RS_split(store, s, single)
    IN  /\ store' = store
        /\ last' = Op("split", s, "-", single, res.ok, res.out, {})
        /\ UNCHANGED <<resolveVars, finalVars>>

ReqNext ==
    \/ \E s \in SetIds, items \in FreshLists : Construct(s, items)
    \/ \E s \in SetIds, r \in FreshItems : Add(s, r)
    \/ \E s \in SetIds, o \in SetIds : Update(s, o)
    \/ \E s \in SetIds, n \in PkgNames : Remove(s, n)
    \/ \E s \in SetIds, o \in SetIds : MergeInto(s, o)
    \/ \E s \in SetIds, single \in BOOLEAN : Split(s, single)

SpecReq == ReqInit /\ [][ReqNext]_vars

\* ------------------------------------------------------------ claims: RequirementSet
\* C4: after self.merge_into(other), self has the names it had; a name that
\* was in both carries the intersection of the two constraints in self and is
\* gone from other; a name only in other is still there, unchanged; a name
\* only in self is unchanged.
C4_MergeInto ==
    [][ last'.op = "merge_into" =>
          LET pre_s == Contents(store, last'.target)
              pre_o == Contents(store, last'.arg)
              post_s == Contents(store', last'.target)
              post_o == Contents(store', last'.arg)
          IN  /\ DOMAIN post_s = DOMAIN pre_s
              /\ \A n \in DOMAIN pre_s \cap DOMAIN pre_o :
                    /\ post_s[n].version = pre_s[n].version \cup pre_o[n].version
                    /\ n \notin DOMAIN post_o
              /\ \A n \in DOMAIN pre_o \ DOMAIN pre_s :
                    n \in DOMAIN post_o /\ post_o[n] = pre_o[n]
              /\ \A n \in DOMAIN pre_s \ DOMAIN pre_o : post_s[n] = pre_s[n]
      ]_vars
\* self = {a: >=1.0,<2.0}, other = {b: ...} after a merge_into that absorbed a.
C4_Witness ==
    /\ last.op = "merge_into" /\ last.target = "self" /\ last.both = {"a"}
    /\ DOMAIN store.sets["self"] = {"a"}
    /\ Constraint(store, "self", "a") =
          { [operator |-> ">=", version |-> 10], [operator |-> "<", version |-> 20] }
    /\ DOMAIN store.sets["other"] = {"b"}

\* C5: a set holds at most one Requirement per name and every key is the name
\* of the Requirement stored under it; add inserts the item when its name is
\* absent and otherwise intersects its constraint into the entry, the number
\* of entries unchanged.
OnePerName(st, s) ==
    /\ \A k \in DOMAIN st.sets[s] : st.heap[st.sets[s][k]].name = k
    /\ \A n \in PkgNames :
          Cardinality({ k \in DOMAIN st.sets[s] : st.heap[st.sets[s][k]].name = n }) <= 1
AddStep ==
    last'.op = "add" =>
        LET pre == Contents(store, last'.target)
            post == Contents(store', last'.target)
            n == last'.arg
        IN  IF n \notin DOMAIN pre
            THEN /\ DOMAIN post = DOMAIN pre \cup {n}
                 /\ post[n] \in FreshItems /\ post[n].name = n
                 /\ \A k \in DOMAIN pre : post[k] = pre[k]
            ELSE /\ DOMAIN post = DOMAIN pre
                 /\ \E v \in InputVersions : post[n].version = pre[n].version \cup v
                 /\ \A k \in DOMAIN pre \ {n} : post[k] = pre[k]
MergedIn(n) ==
    InputVersions \cup
    { Constraint(store, s, n) : s \in { x \in SetIds : n \in DOMAIN store.sets[x] } }
C6_Tightens ==
    [][ last'.op \in {"add", "update", "merge_into"} =>
          \A s \in SetIds : \A n \in DOMAIN store.sets[s] \cap DOMAIN store'.sets[s] :
              LET old == Constraint(store, s, n)
                  new == Constraint(store', s, n)
              IN  /\ \E m \in MergedIn(n) : new = old \cup m
                  /\ Allowed(new) \subseteq Allowed(old)
      ]_vars
\* An update that merged a name and narrowed its range.
C6_Witness ==
    /\ last.op = "update" /\ "a" \in last.both
    /\ Cardinality(Constraint(store, last.target, "a")) = 2
    /\ Allowed(Constraint(store, last.target, "a")) = {10, 12, 15, 17}

\* C7: Requirement.split gives one unversioned SimpleRequirement for no
\* comparison, one SimpleRequirement of the same name per comparison
\* otherwise, and fails exactly when single is set and there are several
\* comparisons; RequirementSet.split(single) fails exactly when one of its
\* entries does.
SplitOf(r, single) ==
    LET specs == simplify_specifiers(r.version)
        res == Requirement_split(r, single)
    IN  IF Len(specs) = 0
        THEN res.ok /\ Len(res.out) = 1
             /\ res.out[1].name = r.name /\ res.out[1].version = None
        ELSE IF single /\ Len(specs) > 1
        THEN ~res.ok /\ res.out = <<>>
        ELSE /\ res.ok /\ Len(res.out) = Len(specs)
             /\ \A i \in 1..Len(specs) :
                   res.out[i].name = r.name /\ res.out[i].version = specs[i]
Comparisons(st, s, n) == Len(simplify_specifiers(Constraint(st, s, n)))
C7_Split ==
    /\ \A i \in 1..Len(store.heap), single \in BOOLEAN : SplitOf(store.heap[i], single)
    /\ last.op = "split" =>
          LET s == last.target
              several == \E n \in DOMAIN store.sets[s] : Comparisons(store, s, n) > 1
          IN  /\ last.ok = ~(last.single /\ several)
              /\ last.ok =>
                    \A n \in DOMAIN store.sets[s] :
                        Cardinality({ i \in 1..Len(last.out) : last.out[i].name = n })
                            = IF Comparisons(store, s, n) = 0 THEN 1
                              ELSE Comparisons(store, s, n)
\* split(single=True) fails on a set whose entry has two independent comparisons.
C7_Witness ==
    /\ last.op = "split" /\ last.single /\ ~last.ok
    /\ \E n \in DOMAIN store.sets[last.target] :
          Constraint(store, last.target, n) =
              { [operator |-> ">=", version |-> 10], [operator |-> "!=", version |-> 15] }

\* ------------------------------------------------------------ resolving one descriptor
\* The number of successive calls of write on the descriptor.
MaxCalls == 2

GE10 == [operator |-> ">=", version |-> 10]
LT20 == [operator |-> "<", version |-> 20]
NE15 == [operator |-> "!=", version |-> 15]
NE25 == [operator |-> "!=", version |-> 25]
\* System packages: s1 gives an include directory, a library directory and
\* a non-list option; s2 gives a library; s3 gives a private library.
S1 == PkgRef("system", "s1", {},
             << Option("includes", TRUE, <<"/inc1">>),
                Option("lib_dirs", TRUE, <<"/ld1">>),
                Option("format", FALSE, <<"elf">>) >>)
S2 == PkgRef("system", "s2", {}, << Option("libs", TRUE, <<"Z">>) >>)
S3 == PkgRef("system", "s3", {}, << Option("libs_private", TRUE, <<"Z">>) >>)
Str(n) == PkgRef("str", n, {}, <<>>)
Pair(n, v) == PkgRef("tuple", n, v, <<>>)
Pkg(n, v) == PkgRef("pkg_config", n, v, <<>>)
Unsupported == PkgRef("other", "", {}, <<>>)

\* The libraries of the project (Z is a library of a system package: it
\* forwards nothing and depends on no package).
ProjectLibs == {"A", "B", "C"}
Plain == Library(FALSE, <<>>, <<>>, <<>>)
\* What a library may forward: nothing, or one other library and an option.
Forwards(x) ==
    {Plain} \cup { Library(TRUE, <<y>>, <<"-DFOO">>, <<>>) : y \in ProjectLibs \ {x} }
DepsA == { <<>>, <<Str("a")>>, <<Pair("a", {NE25})>>, <<Pair("a", {GE10}), S1>>,
           <<S3>>, <<Unsupported>> }
DepsB == { <<>>, <<Pkg("b", {LT20})>> }
Graphs(fa, fb, fc) ==
    { [x \in ProjectLibs \cup {"Z"} |->
          CASE x = "A" -> [a EXCEPT !.package_deps = da]
            [] x = "B" -> [b EXCEPT !.package_deps = db]
            [] x = "C" -> c
            [] OTHER -> Plain] :
      a \in fa, b \in fb, c \in fc, da \in DepsA, db \in DepsB }

\* Lists of at most n distinct project libraries.
LibLists(n) ==
    {<<>>} \cup { <<x>> : x \in ProjectLibs }
           \cup (IF n < 2 THEN {}
                 ELSE { p \in { <<x, y>> : x \in ProjectLibs, y \in ProjectLibs } :
                            p[1] # p[2] })
Maybe(S) == {NoneVal} \cup { Some(x) : x \in S }

Kwargs(libs, libs_private, requires, requires_private, conflicts, includes) ==
    [auto_fill |-> TRUE, name |-> Some("foo"), desc_name |-> NoneVal,
     desc |-> NoneVal, url |-> NoneVal, version |-> Some("1.0"),
     requires |-> requires, requires_private |-> requires_private,
     conflicts |-> conflicts, includes |-> includes, libs |-> libs,
     libs_private |-> libs_private, options |-> <<>>,
     link_options |-> <<>>, link_options_private |-> <<"-pthread">>]

\* The descriptors that vary in their libraries, over every forwarding.
LibraryCases ==
    /\ graph \in Graphs(Forwards("A"), Forwards("B"), Forwards("C"))
    /\ graph["B"].package_deps = <<>>
    /\ \E libs \in Maybe(LibLists(1)), libs_private \in Maybe(LibLists(2)) :
          info = PkgConfigInfo_init(
                    Kwargs(libs, libs_private, NoneVal, NoneVal, NoneVal, NoneVal))
\* The descriptors that vary in their packages, where A forwards B.
PackageCases ==
    /\ graph \in Graphs({Library(TRUE, <<"B">>, <<"-DFOO">>, <<>>)}, {Plain}, {Plain})
    /\ \E libs \in {NoneVal, Some(<<"A">>)},
          libs_private \in {NoneVal, Some(<<"B">>)},
          requires \in Maybe({ <<Pair("a", {LT20})>>, <<S1>>,
                               <<S2, Pair("a", {NE15}), Str("b")>> }),
          requires_private \in Maybe({ <<Str("a")>>, <<S3, Pair("b", {GE10})>>, <<S1>> }),
          conflicts \in Maybe({ <<Pair("b", {GE10}), Pair("b", {LT20})>> }),
          includes \in Maybe({ <<"/h">> }) :
          info = PkgConfigInfo_init(
                    Kwargs(libs, libs_private, requires, requires_private,
                           conflicts, includes))

ResolveInit ==
    /\ LibraryCases \/ PackageCases
    /\ runs = <<>>
    /\ store = <<>> /\ last = <<>>
    /\ build = <<>> /\ fin = <<>>

\* info.write(out, env)
Written(w) ==
    /\ runs' = Append(runs, [ok |-> w.ok, err |-> w.err, data |-> w.data,
                             out |-> w.out])
    /\ info' = w.info
Write ==
    /\ Len(runs) < MaxCalls
    /\ Written(PkgConfigInfo_write(graph, info))
    /\ UNCHANGED <<graph, store, last, finalVars>>

ResolveNext == Write

SpecResolve == ResolveInit /\ [][ResolveNext]_vars

\* ------------------------------------------------------------ claims: resolving
\* The call of write that a step makes, if it makes one.
Called == Len(runs') = Len(runs) + 1
Outcome == runs'[Len(runs')]
NamesOf(reqs) == { reqs[i].name : i \in 1..Len(reqs) }

\* C1: the resolved libs and libs_private of a descriptor have no library
\* in common.
C1_LibsDisjoint ==
    \A i \in 1..Len(runs) :
        runs[i].ok =>
            Range(runs[i].data[1].libs) \cap Range(runs[i].data[1].libs_private) = {}

\* C2: the resolved libs are the declared libs, and every library forwarded
\* by a declared library (public or private) that is not itself in libs is
\* in the resolved libs_private.
C2_ForwardedArePrivate ==
    [][ Called /\ Outcome.ok =>
          LET libs == ListOr(info.libs)
              declared == Range(libs) \cup Range(ListOr(info.libs_private))
          IN  /\ Outcome.data[1].libs = libs
              /\ \A L \in declared : graph[L].forward =>
                    \A x \in Range(graph[L].fwd_libs) \ Range(libs) :
                        x \in Range(Outcome.data[1].libs_private)
      ]_vars

\* C3: no package name is in both the resolved requires and the resolved
\* requires_private, and a name in requires carries the intersection of its
\* public constraint with the private and the auto-discovered constraints
\* for that name.
AutoRefs(g, all, n) ==
    { r \in Range(PackageDeps(g, all)) :
        r.kind \in {"str", "tuple", "pkg_config"} /\ r.name = n }
PrivateConstraint(st, n) ==
    IF n \in DOMAIN st.sets["requires_private"]
    THEN Constraint(st, "requires_private", n) ELSE {}
C3_RequiresDisjoint ==
    [][ Called /\ Outcome.ok =>
          LET d == Outcome.data[1]
              all == ListOr(info.libs) \o
                     ResolvePrivateLibs(graph, ListOr(info.libs), ListOr(info.libs_private))
          IN  /\ NamesOf(d.requires) \cap NamesOf(d.requires_private) = {}
              /\ NamesOf(d.requires) = DOMAIN info.st.sets["requires"]
              /\ \A n \in DOMAIN info.st.sets["requires"] :
                    /\ Constraint(info'.st, "requires", n) =
                          Constraint(info.st, "requires", n)
                          \cup PrivateConstraint(info.st, n)
                          \cup UNION { r.version : r \in AutoRefs(graph, all, n) }
                    /\ \A i \in 1..Len(d.requires) :
                          d.requires[i].name = n =>
                              \/ simplify_specifiers(Constraint(info'.st, "requires", n)) = <<>>
                                    /\ "none" \in DOMAIN d.requires[i].version
                              \/ simplify_specifiers(Constraint(info'.st, "requires", n))
                                    = <<d.requires[i].version>>
      ]_vars
\* A public requirement on a (< 20) that absorbed the requirement on a
\* discovered from library A (!= 25); nothing on a is left private.
C3_Witness ==
    /\ Len(runs) = 1 /\ runs[1].ok
    /\ info.libs = Some(<<"A">>) /\ graph["A"].package_deps = <<Pair("a", {NE25})>>
    /\ info.requires_private = Some(<<>>)
    /\ DOMAIN info.st.sets["requires_private"] = {}
    /\ Constraint(info.st, "requires", "a") = {LT20, NE25}
    /\ runs[1].data[1].requires = <<SimpleRequirement("a", LT20)>>

\* C12: with system packages declared in requires, declared in
\* requires_private or discovered from the libraries, a call does not fail
\* on their options, and on success every list-valued option is in the
\* resolved list of its core field or in extra_fields under its key, while a
\* non-list option is in neither.
SystemOf(pkgs) == SelectSeq(pkgs, LAMBDA p : p.kind = "system")
Contributing ==
    LET libs == ListOr(info.libs)
        all == libs \o ResolvePrivateLibs(graph, libs, ListOr(info.libs_private))
    IN  ListOr(info.requires) \o ListOr(info.requires_private)
        \o SystemOf(PackageDeps(graph, all))
Routed(d, e) ==
    CASE e.key = "includes" -> Range(e.value) \subseteq Range(d.includes)
      [] e.key = "libs" -> Range(e.value) \subseteq Range(d.libs)
      [] e.key = "libs_private" -> Range(e.value) \subseteq Range(d.libs_private)
      [] OTHER -> /\ e.key \in DOMAIN d.extra_fields
                  /\ Range(e.value) \subseteq Range(d.extra_fields[e.key])
C12_SystemOptionsRouted ==
    [][ Called =>
          LET options == Flatten([k \in 1..Len(Contributing) |-> Contributing[k].options])
          IN  /\ Outcome.err # "KeyError"
              /\ Outcome.ok =>
                    /\ \A k \in 1..Len(options) :
                          options[k].iterable => Routed(Outcome.data[1], options[k])
                    /\ \A key \in DOMAIN Outcome.data[1].extra_fields :
                          \E k \in 1..Len(options) :
                              options[k].iterable /\ options[k].key = key
      ]_vars

\* C14: a call of _process_inputs, successful or not, leaves the stored
\* requires, requires_private and conflicts sets and the stored includes,
\* libs and libs_private lists as they were, and leaves the build graph as
\* it was.
C14_Pure ==
    [][ Called =>
          /\ \A s \in ReqFields : Contents(info'.st, s) = Contents(info.st, s)
          /\ info'.includes = info.includes
          /\ info'.libs = info.libs
          /\ info'.libs_private = info.libs_private
          /\ graph' = graph
      ]_vars

\* C9: two successive calls of write on a descriptor give the same resolved
\* fields and the same text.
C9_Idempotent ==
    \A i \in 1..Len(runs), j \in 1..Len(runs) :
        /\ runs[i].ok = runs[j].ok
        /\ runs[i].data = runs[j].data
        /\ runs[i].out = runs[j].out

\* ------------------------------------------------------------ finalization
\* The largest number of descriptors registered in a build.
MaxDescs == 2

\* The build graph of the finalization runs: A forwards B, C depends on a
\* package of an unsupported type.
FinalGraph ==
    [x \in ProjectLibs \cup {"Z"} |->
        CASE x = "A" -> Library(TRUE, <<"B">>, <<"-DFOO">>, <<>>)
          [] x = "C" -> Library(FALSE, <<>>, <<>>, <<Unsupported>>)
          [] OTHER -> Plain]
\* What a descriptor declares besides its name: all unset; libraries and a
\* version; a library whose package has an unsupported type; a requirement
\* of two comparisons; a library alone; everything set.
Declared ==
    { [version |-> NoneVal, includes |-> NoneVal, libs |-> NoneVal, requires |-> NoneVal],
      [version |-> Some("2.0"), includes |-> NoneVal, libs |-> Some(<<"A">>),
       requires |-> NoneVal],
      [version |-> NoneVal, includes |-> Some(<<"/h">>), libs |-> Some(<<"C">>),
       requires |-> NoneVal],
      [version |-> Some("2.0"), includes |-> Some(<<"/h">>), libs |-> NoneVal,
       requires |-> Some(<<Pair("a", {GE10}), Pair("a", {LT20})>>)],
      [version |-> NoneVal, includes |-> NoneVal, libs |-> Some(<<"B">>),
       requires |-> NoneVal],
      [version |-> Some("2.0"), includes |-> Some(<<"/h">>), libs |-> Some(<<"A">>),
       requires |-> Some(<<S1>>)] }
\* pkg_config(name, **kwargs): the descriptors a build script may register.
Descriptors ==
    { PkgConfigInfo_init(
          [Kwargs(d.libs, NoneVal, d.requires, NoneVal, NoneVal, d.includes)
              EXCEPT !.name = n, !.version = d.version, !.auto_fill = f]) :
      n \in Maybe({"foo", "bar"}), f \in BOOLEAN, d \in Declared }
DescriptorLists == UNION { [1..n -> Descriptors] : n \in 0..MaxDescs }
Projects == { [name |-> "proj", version |-> v] : v \in Maybe({"1.0"}) }
InstalledHeaders == <<"/include">>
InstalledLibraries == <<"A", "B", "A">>

BuildDefaults == Defaults(build.project, InstalledHeaders, InstalledLibraries)

FinalInit ==
    /\ graph = FinalGraph
    /\ \E project \in Projects, infos \in DescriptorLists :
          build = [project |-> project, pkg_config |-> infos]
    /\ fin = [pc |-> "fill", idx |-> 1, written |-> <<>>, err |-> ""]
    /\ info = <<>> /\ runs = <<>>
    /\ store = <<>> /\ last = <<>>

\* One turn of the first loop: the descriptor at idx is filled.
AutoFill ==
    /\ fin.pc = "fill" /\ fin.idx <= Len(build.pkg_config)
    /\ build' = [build EXCEPT !.pkg_config[fin.idx] = AutoFillInfo(@, BuildDefaults)]
    /\ fin' = [fin EXCEPT !.idx = @ + 1]
    /\ UNCHANGED <<graph, reqVars, info, runs>>

\* After the first loop: the duplicate check raises, or the second loop
\* starts.
CheckDupes ==
    /\ fin.pc = "fill" /\ fin.idx > Len(build.pkg_config)
    /\ fin' = IF Dupes(build.pkg_config) # {}
              THEN [fin EXCEPT !.pc = "failed", !.err = "duplicate"]
              ELSE [fin EXCEPT !.pc = IF Len(build.pkg_config) = 0 THEN "done"
                                      ELSE "write",
                               !.idx = 1]
    /\ UNCHANGED <<graph, reqVars, info, runs, build>>

\* One turn of the second loop: info.output needs a name (None + '.pc' is a
\* TypeError); generated_file hands the file over when its block ends, so a
\* write that raises leaves no file of its own.
WriteOutcome(w) ==
    /\ build' = [build EXCEPT !.pkg_config[fin.idx] = w.info]
    /\ fin' = IF ~w.ok THEN [fin EXCEPT !.pc = "failed", !.err = w.err]
              ELSE [fin EXCEPT
                      !.written = Append(@, [name |-> build.pkg_config[fin.idx].name[1],
                                             text |-> w.out[1]]),
                      !.idx = @ + 1,
                      !.pc = IF fin.idx = Len(build.pkg_config) THEN "done" ELSE @]
WriteOne ==
    /\ fin.pc = "write" /\ fin.idx <= Len(build.pkg_config)
    /\ IF build.pkg_config[fin.idx].name = NoneVal
       THEN /\ fin' = [fin EXCEPT !.pc = "failed", !.err = "TypeError"]
            /\ UNCHANGED build
       ELSE WriteOutcome(PkgConfigInfo_write(graph, build.pkg_config[fin.idx]))
    /\ UNCHANGED <<graph, reqVars, info, runs>>

FinalNext == AutoFill \/ CheckDupes \/ WriteOne

SpecFinalize == FinalInit /\ [][FinalNext]_vars

\* ------------------------------------------------------------ claims: finalization
\* C8: when two descriptors have the same name after auto-fill, finalization
\* fails with the duplicate-name error and no descriptor file is written.
Filled == fin.pc # "fill"
SameName ==
    \E i, j \in 1..Len(build.pkg_config) :
        i # j /\ build.pkg_config[i].name = build.pkg_config[j].name
FillKeys == {"name", "version", "includes", "libs"}
FillStep == fin.pc = "fill" /\ fin'.pc = "fill" /\ fin'.idx = fin.idx + 1
CheckStep == fin.pc = "fill" /\ fin'.pc # "fill"
FilledAs(old, new) ==
    /\ \A key \in FillKeys :
          new[key] = IF old[key] = NoneVal THEN BuildDefaults[key] ELSE old[key]
    /\ \A key \in DOMAIN old \ FillKeys : new[key] = old[key]
NoneUnset(infos) ==
    \A k \in 1..Len(infos) :
        infos[k].auto_fill => \A key \in FillKeys : infos[k][key] # NoneVal
C13_AutoFill ==
    /\ [][ FillStep =>
             /\ build'.project = build.project
             /\ Len(build'.pkg_config) = Len(build.pkg_config)
             /\ \A k \in 1..Len(build.pkg_config) :
                   IF k = fin.idx /\ build.pkg_config[k].auto_fill
                   THEN FilledAs(build.pkg_config[k], build'.pkg_config[k])
                   ELSE build'.pkg_config[k] = build.pkg_config[k]
         ]_vars
    /\ [][ CheckStep => NoneUnset(build.pkg_config) /\ build' = build ]_vars
    /\ [](fin.pc # "fill" => NoneUnset(build.pkg_config))
\* Past the first loop: a descriptor with auto_fill that got the project's
\* name and the version '0.0' but kept its own library, and one without
\* auto_fill whose name is still None.
C13_Witness ==
    /\ fin.pc # "fill" /\ Len(build.pkg_config) = 2
    /\ build.project.version = NoneVal
    /\ build.pkg_config[1].auto_fill
    /\ build.pkg_config[1].name = Some("proj")
    /\ build.pkg_config[1].version = Some("0.0")
    /\ build.pkg_config[1].includes = Some(<<"/include">>)
    /\ build.pkg_config[1].libs = Some(<<"B">>)
    /\ ~build.pkg_config[2].auto_fill
    /\ build.pkg_config[2].name = NoneVal
    /\ build.pkg_config[2].libs = NoneVal

\* C10: when the resolution of a descriptor fails, no descriptor file of
\* the build has been written.
ResolutionFailed ==
    /\ fin.pc = "failed" /\ fin.err \in {"ValueError", "TypeError"}
    /\ build.pkg_config[fin.idx].name # NoneVal
C10_NoPartialOutput ==
    ResolutionFailed => fin.written = <<>>

\* ------------------------------------------------------------ filtering packages
\* The longest sequence of package references passed to _filter_packages.
MaxPackages == 3

\* The references a caller may pass: names, pairs and pkg-config packages
\* on the names a and b, two system packages and a value of another type.
PackageItems ==
    { Str("a"), Pair("a", {GE10}), Pkg("a", {LT20}), Str("b"), Pair("b", {NE15}),
      S1, S2, Unsupported }
PackageLists == UNION { [1..n -> PackageItems] : n \in 0..MaxPackages }
FilterStore == [heap |-> <<>>, sets |-> [pkg_config |-> EmptyReqs]]

FilterInit ==
    /\ store = FilterStore
    /\ last = [called |-> FALSE, packages |-> <<>>, ok |-> TRUE, system |-> <<>>]
    /\ graph = <<>> /\ info = <<>> /\ runs = <<>>
    /\ build = <<>> /\ fin = <<>>

\* A call of the static method: a new RequirementSet and the list of
\* system packages are returned, or TypeError is raised and nothing is.
\* The method keeps nothing between calls, so a behaviour makes one call.
Filtered(packages, f) ==
    /\ store' = IF f.ok THEN Collect(f.st, <<"pkg_config">>) ELSE FilterStore
    /\ last' = [called |-> TRUE, packages |-> packages, ok |-> f.ok,
                system |-> f.system]
FilterPackages ==
    /\ ~last.called
    /\ \E packages \in PackageLists :
          Filtered(packages, PkgConfigInfo_filter_packages(FilterStore, "pkg_config", packages))
    /\ UNCHANGED <<graph, info, runs, finalVars>>

FilterNext == FilterPackages

SpecFilter == FilterInit /\ [][FilterNext]_vars

\* ------------------------------------------------------------ claims: filtering
\* C11: _filter_packages fails (and returns nothing) exactly when an input
\* has an unsupported type; otherwise the returned set has one entry per
\* name given by a bare name, a pair or a pkg-config package, keyed by that
\* name, with the conjunction of all constraints given for the name, and
\* the returned list holds every system package once, in first-seen order.
Named(packages) ==
    { k \in 1..Len(packages) : packages[k].kind \in {"str", "tuple", "pkg_config"} }
SystemAt(packages) == { k \in 1..Len(packages) : packages[k].kind = "system" }
FirstAt(packages, x) ==
    CHOOSE k \in 1..Len(packages) :
        packages[k] = x /\ \A j \in 1..(k - 1) : packages[j] # x
C11_FilterPartitions ==
    last.called =>
        LET packages == last.packages
            reqs == store.sets["pkg_config"]
        IN  IF \E k \in 1..Len(packages) : packages[k].kind = "other"
            THEN ~last.ok /\ last.system = <<>> /\ store = FilterStore
            ELSE /\ last.ok
                 /\ DOMAIN reqs = { packages[k].name : k \in Named(packages) }
                 /\ \A n \in DOMAIN reqs :
                       /\ store.heap[reqs[n]].name = n
                       /\ Constraint(store, "pkg_config", n) =
                             UNION { packages[k].version :
                                       k \in { j \in Named(packages) : packages[j].name = n } }
                 /\ Len(store.heap) = Cardinality(DOMAIN reqs)
                 /\ Range(last.system) = { packages[k] : k \in SystemAt(packages) }
                 /\ \A i, j \in 1..Len(last.system) :
                       i < j => FirstAt(packages, last.system[i])
                                   < FirstAt(packages, last.system[j])
\* "a" as a pair with >= 10 and as a bare name, then a system package: one
\* entry a with >= 10 and the system package.
C11_Witness ==
    /\ last.called /\ last.ok
    /\ last.packages = <<Pair("a", {GE10}), Str("a"), S1>>
    /\ Constraint(store, "pkg_config", "a") = {GE10}
    /\ last.system = <<S1>>

====
